---- MODULE Spec2Model ----
(***************************************************************************)
(* Burger shop agent (burger_agent.py): module load with its credential    *)
(* check, the two tools lookup_price and place_order, and run_agent with   *)
(* its extraction of the reply from the completion engine's result.        *)
(*                                                                         *)
(* The completion engine, the retriever and the observability callback are *)
(* external collaborators: the engine is modelled as a process that, while *)
(* a run_agent call is blocked in agent.invoke, appends turns to the       *)
(* conversation and calls the tools, and then returns or raises; the       *)
(* retriever as a choice of a ranked list of indexed records; the callback *)
(* as a choice of what the handler exposes when the engine call ends.      *)
(* Texts are TLA+ strings; Python's None is the string None.               *)
(***************************************************************************)
EXTENDS Integers, Sequences, FiniteSets, TLC

VARIABLES
    environ,          \* os.environ after load_dotenv: the credential
    phase,            \* "unloaded", "ready" or "fatal" (module load raised)
    error,            \* the message of the exception that ended the load
    constructed,      \* module-level objects built so far, in order
    provider_calls,   \* provider calls made so far, in order (capped)
    menu,             \* the records held by the vector index
    n_calls,          \* how many run_agent calls have been started
    user_input,       \* argument of the current run_agent call
    langfuse_handler, \* the callback object of the current call
    messages,         \* the conversation the engine holds
    engine,           \* agent.invoke: [status, invocations] of this call
    last_tool,        \* the latest tool call of this call: the tool, the items
                      \* ordered or the records retrieved, its output, its turn
    result,           \* what agent.invoke returned
    outcome,          \* how run_agent ended: line of its return, or raised
    reply             \* the tuple run_agent returned, <<>> when none

vars == <<environ, phase, error, constructed, provider_calls, menu, n_calls,
          user_input, langfuse_handler, messages, engine, last_tool, result,
          outcome, reply>>

-----------------------------------------------------------------------------
(* Bounds of the model *)

MaxTurns == 2       \* turns the engine appends in one call
MaxCalls == 2       \* run_agent calls in one process

(* Inputs *)

None == "None"
ApiKeys == {"", "AIza-key"}
UserInputs == {"How much is a Big Mac and please order one.", ""}
Queries == {"Big Mac price", "xyzzy"}
Items == {"Big Mac, Fries", "Unicorn Burger", ""}
EngineTexts == {"", "Here you go!"}
MessageTypes == {"HumanMessage", "AIMessage", "ToolMessage", "SystemMessage"}
TraceIds == <<"trace-1", "trace-2", "trace-3", "trace-4">>

-----------------------------------------------------------------------------
(* Module load, burger_agent.py lines 10-82 *)

MENU_DATA == <<"Big Mac: $5", "Whopper: $6", "Fries: $2">>

K == 3

KeyErrorMessage ==
    "GEMINI_API_KEY not found in environment variables. Please set it in your .env file."

ProviderErrorMessage == "embedding provider call failed"

\* os.getenv("GEMINI_API_KEY"): None when the variable is not set
GetEnvKey(env) == IF env.has_key THEN env.GEMINI_API_KEY ELSE None

\* `not gemini_api_key`: None and the empty string are falsy
KeyMissing(env) == ~env.has_key \/ env.GEMINI_API_KEY = ""

\* A variant that builds the embedding client and the index before it looks
\* at the credential.
LoadStateLateCheck(env, embed_ok) ==
    IF ~embed_ok
    THEN [phase |-> "fatal", error |-> ProviderErrorMessage,
          constructed |-> <<"embeddings">>,
          provider_calls |-> <<"embed_documents">>, menu |-> <<>>,
          google_key |-> None]
    ELSE IF KeyMissing(env)
    THEN [phase |-> "fatal", error |-> KeyErrorMessage,
          constructed |-> <<"embeddings", "vectorstore">>,
          provider_calls |-> <<"embed_documents">>, menu |-> MENU_DATA,
          google_key |-> None]
    ELSE [phase |-> "ready", error |-> None,
          constructed |-> <<"embeddings", "vectorstore", "retriever", "llm", "agent">>,
          provider_calls |-> <<"embed_documents">>, menu |-> MENU_DATA,
          google_key |-> GetEnvKey(env)]

\* The statements of the module in order: the credential check (11-14), the
\* embedding client (16), the index over MENU_DATA (24, which embeds the
\* texts and may raise), the retriever (25), the llm (63) and the agent (77).
LoadState(env, embed_ok) ==
    IF KeyMissing(env)
    THEN [phase |-> "fatal", error |-> KeyErrorMessage,
          constructed |-> <<>>, provider_calls |-> <<>>, menu |-> <<>>,
          google_key |-> None]
    ELSE IF ~embed_ok
    THEN [phase |-> "fatal", error |-> ProviderErrorMessage,
          constructed |-> <<"embeddings">>,
          provider_calls |-> <<"embed_documents">>, menu |-> <<>>,
          google_key |-> GetEnvKey(env)]
    ELSE [phase |-> "ready", error |-> None,
          constructed |-> <<"embeddings", "vectorstore", "retriever", "llm", "agent">>,
          provider_calls |-> <<"embed_documents">>, menu |-> MENU_DATA,
          google_key |-> GetEnvKey(env)]

-----------------------------------------------------------------------------
(* Tools, burger_agent.py lines 28-58 *)

NoItemsFound == "No items found matching your query."

RECURSIVE Join(_, _)
\* sep.join(lines)
Join(sep, lines) ==
    IF lines = <<>> THEN ""
    ELSE IF Len(lines) = 1 THEN lines[1]
    ELSE lines[1] \o sep \o Join(sep, Tail(lines))

Reverse(s) == [i \in 1..Len(s) |-> s[Len(s) + 1 - i]]

\* retriever.invoke(query): a ranked list (closest first) of at most K
\* distinct records of the index; which ones, and in what order, is the
\* embedding provider's and the index's decision.
Retrieve(query) ==
    {docs \in UNION {[1..n -> {menu[i] : i \in 1..Len(menu)}] : n \in 0..K} :
        \A i, j \in 1..Len(docs) : i # j => docs[i] # docs[j]}

\* A variant that joins the records last-retrieved first and has no
\* sentinel.
lookup_price_reversed(docs) == Join("\n", Reverse(docs))

\* A variant that leaves the first retrieved record out of the join.
lookup_price_skips_first(docs) ==
    IF docs = <<>> THEN NoItemsFound ELSE Join("\n", Tail(docs))

\* lines 40-43, docs being what retriever.invoke(query) returned
lookup_price(docs) ==
    IF docs = <<>> THEN NoItemsFound ELSE Join("\n", docs)

\* A variant that checks the items against the knowledge base.
place_order_validated(items) ==
    IF \E i \in 1..Len(menu) : menu[i] = items \o ": $5"
    THEN "ORDER_PLACED: [" \o items \o "]"
    ELSE "ORDER_REJECTED: [" \o items \o "]"

\* line 58
place_order(items) == "ORDER_PLACED: [" \o items \o "]"

-----------------------------------------------------------------------------
(* Messages and the engine's result *)

Message(type, content) == [type |-> type, has_content |-> TRUE, content |-> content]

HumanMessage(content) == Message("HumanMessage", content)

ToolMessage(content) == Message("ToolMessage", content)

\* an element of the message list that has no content attribute
BareObject == [type |-> "object", has_content |-> FALSE, content |-> ""]

\* what the engine may append on its own: a turn of any type, with or
\* without text, or an object without content
EngineTurns == {Message(t, c) : t \in MessageTypes, c \in EngineTexts} \cup {BareObject}

\* the dict agent.invoke returns; has_messages is whether the key is there
NoResult == [has_messages |-> FALSE, messages |-> <<>>]

ResultShapes == {"state", "empty", "no_key"}

EngineResult(shape, msgs) ==
    CASE shape = "state"  -> [has_messages |-> TRUE, messages |-> msgs]
      [] shape = "empty"  -> [has_messages |-> TRUE, messages |-> <<>>]
      [] shape = "no_key" -> NoResult

\* repr of one message inside str(result)
MsgRepr(m) ==
    IF m.has_content THEN m.type \o "(content='" \o m.content \o "')"
    ELSE "<" \o m.type \o ">"

\* str(result), line 110
Str(res) ==
    IF res.has_messages
    THEN "{'messages': [" \o
         Join(", ", [i \in 1..Len(res.messages) |-> MsgRepr(res.messages[i])]) \o "]}"
    ELSE "{}"

-----------------------------------------------------------------------------
(* The observability callback *)

\* CallbackHandler(), line 96: a new object, no trace recorded yet
NewHandler(id) == [id |-> id, has_attr |-> TRUE, last_trace_id |-> None]

\* the trace the collaborator opens for the n-th call
TraceOfCall(n) == TraceIds[n]

CallbackEffects == {"records_trace", "records_nothing", "no_attribute"}

\* what the handler looks like once the engine call is over
HandlerAfter(h, effect, n) ==
    CASE effect = "records_trace"   -> [h EXCEPT !.has_attr = TRUE,
                                                 !.last_trace_id = TraceOfCall(n)]
      [] effect = "records_nothing" -> h
      [] effect = "no_attribute"    -> [h EXCEPT !.has_attr = FALSE]

\* getattr(langfuse_handler, 'last_trace_id', None), line 100
GetTraceId(h) == IF h.has_attr THEN h.last_trace_id ELSE None

-----------------------------------------------------------------------------
(* Result extraction, burger_agent.py lines 102-110 *)

\* result.get("messages", []), line 102
GetMessages(res) == IF res.has_messages THEN res.messages ELSE <<>>

\* line 105: isinstance(msg, AIMessage) and msg.content
IsAssistantWithContent(msg) ==
    msg.type = "AIMessage" /\ msg.has_content /\ msg.content # ""

\* A variant of line 107 without the HumanMessage exclusion.
IsOtherWithContentAnyRole(msg) == msg.has_content /\ msg.content # ""

\* line 107: hasattr(msg, "content") and msg.content and not isinstance(msg, HumanMessage)
IsOtherWithContent(msg) ==
    msg.has_content /\ msg.content # "" /\ msg.type # "HumanMessage"

RECURSIVE ScanOldestFirst(_, _, _)
\* A variant of the loop that walks the list in its own order.
ScanOldestFirst(msgs, i, trace_id) ==
    LET j == Len(msgs) + 1 - i IN
    IF i = 0 THEN [line |-> 110, value |-> <<>>]
    ELSE IF IsAssistantWithContent(msgs[j])
         THEN [line |-> 106, value |-> <<msgs[j].content, trace_id>>]
    ELSE IF IsOtherWithContent(msgs[j])
         THEN [line |-> 108, value |-> <<msgs[j].content, trace_id>>]
    ELSE ScanOldestFirst(msgs, i - 1, trace_id)

RECURSIVE Scan(_, _, _)
\* lines 104-108: for msg in reversed(messages), from index i downwards;
\* line 110 when the loop ends without a return
Scan(msgs, i, trace_id) ==
    IF i = 0 THEN [line |-> 110, value |-> <<>>]
    ELSE IF IsAssistantWithContent(msgs[i])
         THEN [line |-> 106, value |-> <<msgs[i].content, trace_id>>]
    ELSE IF IsOtherWithContent(msgs[i])
         THEN [line |-> 108, value |-> <<msgs[i].content, trace_id>>]
    ELSE Scan(msgs, i - 1, trace_id)

\* A variant that gives up on the conversation when there is no trace.
ExtractNeedsTrace(res, h) ==
    LET trace_id == GetTraceId(h)
        found == Scan(GetMessages(res), Len(GetMessages(res)), trace_id)
    IN  IF found.line = 110 \/ trace_id = None
        THEN [line |-> 110, value |-> <<Str(res), trace_id>>]
        ELSE found

\* lines 100-110 of run_agent: the returned tuple and the line returning it
Extract(res, h) ==
    LET trace_id == GetTraceId(h)
        msgs == GetMessages(res)
        found == IF msgs # <<>> THEN Scan(msgs, Len(msgs), trace_id)
                 ELSE [line |-> 110, value |-> <<>>]
    IN  IF found.line = 110
        THEN [line |-> 110, value |-> <<Str(res), trace_id>>]
        ELSE found

-----------------------------------------------------------------------------
(* State *)

NoTool == [name |-> "none", items |-> "", docs |-> <<>>, out |-> "", at |-> 0]

NoOutcome == [kind |-> "none", line |-> 0]

Raised == [kind |-> "raised", line |-> 0]

Returned(line) == [kind |-> "return", line |-> line]

Environments ==
    {[has_key |-> FALSE, GEMINI_API_KEY |-> None, GOOGLE_API_KEY |-> None]} \cup
    {[has_key |-> TRUE, GEMINI_API_KEY |-> k, GOOGLE_API_KEY |-> None] : k \in ApiKeys}

\* before burger_agent is imported; the environment is what load_dotenv
\* leaves in os.environ
Init ==
    /\ environ \in Environments
    /\ phase = "unloaded"
    /\ error = None
    /\ constructed = <<>>
    /\ provider_calls = {}
    /\ menu = <<>>
    /\ n_calls = 0
    /\ user_input = ""
    /\ langfuse_handler = NewHandler(0)
    /\ messages = <<>>
    /\ engine = [status |-> "idle", invocations |-> 0]
    /\ last_tool = NoTool
    /\ result = NoResult
    /\ outcome = NoOutcome
    /\ reply = <<>>

-----------------------------------------------------------------------------
(* Actions *)

\* import of burger_agent, lines 10-82
LoadModule ==
    /\ phase = "unloaded"
    /\ \E embed_ok \in BOOLEAN :
        LET s == LoadState(environ, embed_ok) IN
        /\ phase' = s.phase
        /\ error' = s.error
        /\ constructed' = s.constructed
        /\ provider_calls' = {s.provider_calls[i] : i \in 1..Len(s.provider_calls)}
        /\ menu' = s.menu
        /\ environ' = [environ EXCEPT !.GOOGLE_API_KEY = s.google_key]
    /\ UNCHANGED <<n_calls, user_input, langfuse_handler, messages, engine,
                   last_tool, result, outcome, reply>>

\* A variant of line 97 that keeps the turns of the call before.
InputsWithHistory(text) == messages \o <<HumanMessage(text)>>

\* line 97: inputs = {"messages": [HumanMessage(content=user_input)]}
Inputs(text) == <<HumanMessage(text)>>

\* run_agent(text) up to the point where it blocks in agent.invoke, lines 96-99
RunAgentStart(text) ==
    /\ phase = "ready"
    /\ engine.status # "running"
    /\ n_calls < MaxCalls
    /\ n_calls' = n_calls + 1
    /\ user_input' = text
    /\ langfuse_handler' = NewHandler(n_calls + 1)
    /\ messages' = Inputs(text)
    /\ engine' = [status |-> "running", invocations |-> 1]
    /\ provider_calls' = provider_calls \cup {"completion"}
    /\ last_tool' = NoTool
    /\ result' = NoResult
    /\ outcome' = NoOutcome
    /\ reply' = <<>>
    /\ UNCHANGED <<environ, phase, error, constructed, menu>>

\* the engine appends a turn of its own to the conversation
EngineAppendsTurn(turn) ==
    /\ engine.status = "running"
    /\ Len(messages) <= MaxTurns
    /\ messages' = Append(messages, turn)
    /\ UNCHANGED <<environ, phase, error, constructed, provider_calls, menu,
                   n_calls, user_input, langfuse_handler, engine, last_tool,
                   result, outcome, reply>>

\* A variant of the lookup call that takes the records it returns out of
\* the index.
EngineCallsLookupPriceConsuming(query) ==
    /\ engine.status = "running"
    /\ Len(messages) <= MaxTurns
    /\ \E docs \in Retrieve(query) :
        /\ last_tool' = [name |-> "lookup_price", items |-> "", docs |-> docs,
                         out |-> lookup_price(docs), at |-> Len(messages) + 1]
        /\ messages' = Append(messages, ToolMessage(lookup_price(docs)))
        /\ menu' = SelectSeq(menu, LAMBDA r : \A i \in 1..Len(docs) : docs[i] # r)
    /\ provider_calls' = provider_calls \cup {"embed_query"}
    /\ UNCHANGED <<environ, phase, error, constructed, n_calls, user_input,
                   langfuse_handler, engine, result, outcome, reply>>

\* the engine calls lookup_price(query), lines 28-43, and appends its output
\* as a tool turn
EngineCallsLookupPrice(query) ==
    /\ engine.status = "running"
    /\ Len(messages) <= MaxTurns
    /\ \E docs \in Retrieve(query) :
        /\ last_tool' = [name |-> "lookup_price", items |-> "", docs |-> docs,
                         out |-> lookup_price(docs), at |-> Len(messages) + 1]
        /\ messages' = Append(messages, ToolMessage(lookup_price(docs)))
    /\ provider_calls' = provider_calls \cup {"embed_query"}
    /\ UNCHANGED <<environ, phase, error, constructed, menu, n_calls,
                   user_input, langfuse_handler, engine, result, outcome, reply>>

\* the engine calls place_order(items), lines 46-58, and appends its output
\* as a tool turn
EngineCallsPlaceOrder(items) ==
    /\ engine.status = "running"
    /\ Len(messages) <= MaxTurns
    /\ last_tool' = [name |-> "place_order", items |-> items, docs |-> <<>>,
                     out |-> place_order(items), at |-> Len(messages) + 1]
    /\ messages' = Append(messages, ToolMessage(place_order(items)))
    /\ UNCHANGED <<environ, phase, error, constructed, provider_calls, menu,
                   n_calls, user_input, langfuse_handler, engine, result,
                   outcome, reply>>

\* agent.invoke returns and run_agent runs to its return, lines 99-110
EngineReturns(shape, effect) ==
    /\ engine.status = "running"
    /\ LET res == EngineResult(shape, messages)
           h == HandlerAfter(langfuse_handler, effect, n_calls)
           r == Extract(res, h)
       IN  /\ result' = res
           /\ langfuse_handler' = h
           /\ outcome' = Returned(r.line)
           /\ reply' = r.value
    /\ engine' = [engine EXCEPT !.status = "returned"]
    /\ UNCHANGED <<environ, phase, error, constructed, provider_calls, menu,
                   n_calls, user_input, messages, last_tool>>

\* A variant of run_agent that catches the engine's exception and answers
\* with a fixed text.
EngineRaisesCaught ==
    /\ engine.status = "running"
    /\ engine' = [engine EXCEPT !.status = "raised"]
    /\ outcome' = Returned(110)
    /\ reply' = <<"Sorry, something went wrong.", GetTraceId(langfuse_handler)>>
    /\ UNCHANGED <<environ, phase, error, constructed, provider_calls, menu,
                   n_calls, user_input, langfuse_handler, messages, last_tool,
                   result>>

\* agent.invoke raises: line 99 is in no try block, so run_agent ends with
\* the exception and lines 100-110 do not run
EngineRaises ==
    /\ engine.status = "running"
    /\ engine' = [engine EXCEPT !.status = "raised"]
    /\ outcome' = Raised
    /\ reply' = <<>>
    /\ UNCHANGED <<environ, phase, error, constructed, provider_calls, menu,
                   n_calls, user_input, langfuse_handler, messages, last_tool,
                   result>>

Next ==
    \/ LoadModule
    \/ \E text \in UserInputs : RunAgentStart(text)
    \/ \E turn \in EngineTurns : EngineAppendsTurn(turn)
    \/ \E query \in Queries : EngineCallsLookupPrice(query)
    \/ \E items \in Items : EngineCallsPlaceOrder(items)
    \/ \E shape \in ResultShapes, effect \in CallbackEffects : EngineReturns(shape, effect)
    \/ EngineRaises

Spec == Init /\ [][Next]_vars

-----------------------------------------------------------------------------
(* Vocabulary of the properties, stated on turns rather than on the code's  *)
(* tests                                                                    *)

TurnHasText(m) == m.has_content /\ m.content # ""

IsAssistantTurn(m) == m.type = "AIMessage"

IsUserTurn(m) == m.type = "HumanMessage"

IsToolTurn(m) == m.type = "ToolMessage"

\* (a) an assistant turn with text, or (b) a turn with text that is not a
\* user turn
Eligible(m) ==
    \/ IsAssistantTurn(m) /\ TurnHasText(m)
    \/ TurnHasText(m) /\ ~IsUserTurn(m)

\* the turn sequence of the engine's result: none when the key is missing
TurnsOf(res) == IF res.has_messages THEN res.messages ELSE <<>>

HasReturned == outcome.kind = "return"

-----------------------------------------------------------------------------
(* Properties *)

\* C1: for a non-empty turn sequence, the reply text is the text of the
\* most recent eligible turn (assistant with text, or non-user with text);
\* a sequence ending in [tool with text, assistant with text] yields the
\* assistant's text, and when the only eligible turn is a tool turn the
\* reply is that tool turn's text and not the stringified result.
C1_ReplyIsMostRecentEligibleTurn ==
    (HasReturned /\ TurnsOf(result) # <<>>) =>
        LET msgs == TurnsOf(result)
            n == Len(msgs)
        IN  /\ \A i \in 1..n :
                (Eligible(msgs[i]) /\ \A j \in (i + 1)..n : ~Eligible(msgs[j]))
                    => reply[1] = msgs[i].content
            /\ (n >= 2 /\ IsToolTurn(msgs[n - 1]) /\ TurnHasText(msgs[n - 1])
                       /\ IsAssistantTurn(msgs[n]) /\ TurnHasText(msgs[n]))
                    => reply[1] = msgs[n].content
            /\ \A i \in 1..n :
                (IsToolTurn(msgs[i]) /\ Eligible(msgs[i])
                    /\ \A j \in 1..n : j # i => ~Eligible(msgs[j]))
                    => (reply[1] = msgs[i].content /\ outcome.line # 110)

\* C1 witness: the result ends in a tool turn with text followed by an
\* assistant turn with another text, and the reply is the assistant's.
C1_Witness ==
    /\ HasReturned
    /\ Len(TurnsOf(result)) >= 3
    /\ LET msgs == TurnsOf(result)
           n == Len(msgs)
       IN  /\ IsToolTurn(msgs[n - 1]) /\ TurnHasText(msgs[n - 1])
           /\ IsAssistantTurn(msgs[n]) /\ TurnHasText(msgs[n])
           /\ msgs[n].content # msgs[n - 1].content
           /\ reply[1] = msgs[n].content

\* C2 (as claimed): whenever some assistant turn of the result has text,
\* the reply is the text of an assistant turn, returned by the assistant
\* branch, wherever a tool turn with text sits.
C2_AssistantTextAlwaysWins ==
    (HasReturned /\ \E i \in 1..Len(TurnsOf(result)) :
                        IsAssistantTurn(TurnsOf(result)[i]) /\ TurnHasText(TurnsOf(result)[i]))
        => /\ outcome.line = 106
           /\ \E i \in 1..Len(TurnsOf(result)) :
                /\ IsAssistantTurn(TurnsOf(result)[i])
                /\ reply[1] = TurnsOf(result)[i].content

\* C3: whenever the engine returns, run_agent returns a tuple with a text;
\* the text is the string form of the whole result exactly when the result
\* has no message list, an empty one, or no eligible turn.
C3_FallbackExactlyWhenNoEligibleTurn ==
    /\ engine.status = "returned" => HasReturned
    /\ HasReturned =>
        /\ Len(reply) = 2
        /\ outcome.line \in {106, 108, 110}
        /\ (outcome.line = 110)
             <=> (\A i \in 1..Len(TurnsOf(result)) : ~Eligible(TurnsOf(result)[i]))
        /\ (outcome.line = 110) => reply[1] = Str(result)
        /\ (outcome.line # 110) => reply[1] # ""

\* C3 witness: a result holding only a user turn with text and an assistant
\* turn without text is answered with the string form of the result.
C3_Witness ==
    /\ HasReturned
    /\ outcome.line = 110
    /\ result.has_messages
    /\ Len(result.messages) >= 2
    /\ TurnHasText(result.messages[1]) /\ IsUserTurn(result.messages[1])
    /\ \E i \in 1..Len(result.messages) :
        IsAssistantTurn(result.messages[i]) /\ ~TurnHasText(result.messages[i])
    /\ reply[1] = Str(result)

\* C4: a place_order call returns exactly "ORDER_PLACED: [" + items + "]"
\* with items verbatim, and changes nothing but the conversation the engine
\* appends the output to: the knowledge base, the provider calls and every
\* other part of the state stay as they were.
C4_PlaceOrderPure ==
    [][(last_tool' # last_tool /\ last_tool'.name = "place_order") =>
          /\ last_tool'.items \in Items
          /\ last_tool'.out = "ORDER_PLACED: [" \o last_tool'.items \o "]"
          /\ messages' = Append(messages, ToolMessage(last_tool'.out))
          /\ UNCHANGED <<environ, phase, error, constructed, provider_calls,
                         menu, n_calls, user_input, langfuse_handler, engine,
                         result, outcome, reply>>]_vars

\* C4 witness: an order for an item that is not on the menu was placed.
C4_Witness ==
    /\ last_tool.name = "place_order"
    /\ last_tool.items = "Unicorn Burger"
    /\ last_tool.out = "ORDER_PLACED: [Unicorn Burger]"
    /\ messages[last_tool.at] = ToolMessage("ORDER_PLACED: [Unicorn Burger]")

\* C5: lookup_price returns the retrieved records' texts joined with
\* newlines in the retriever's order, the fixed sentinel when nothing was
\* retrieved, and never the empty string.
C5_LookupJoinsInRankOrder ==
    last_tool.name = "lookup_price" =>
        LET docs == last_tool.docs
            out == last_tool.out
        IN  /\ out # ""
            /\ Len(docs) <= K
            /\ Len(docs) = 0 => out = "No items found matching your query."
            /\ Len(docs) = 1 => out = docs[1]
            /\ Len(docs) = 2 => out = docs[1] \o "\n" \o docs[2]
            /\ Len(docs) = 3 => out = docs[1] \o "\n" \o docs[2] \o "\n" \o docs[3]

\* C5 witness: three records retrieved in an order that is not the menu's.
C5_Witness ==
    /\ last_tool.name = "lookup_price"
    /\ last_tool.docs = <<"Fries: $2", "Big Mac: $5", "Whopper: $6">>
    /\ last_tool.out = "Fries: $2\nBig Mac: $5\nWhopper: $6"

\* C6: once the module is loaded, the index holds the three menu records in
\* their original order, whatever calls have been made.
C6_KnowledgeBaseReadOnly ==
    phase = "ready" => menu = <<"Big Mac: $5", "Whopper: $6", "Fries: $2">>

\* C6 witness: a second run_agent call has returned after both a lookup and
\* an order, and the index is as built.
C6_Witness ==
    /\ phase = "ready"
    /\ n_calls = 2
    /\ HasReturned
    /\ last_tool.name = "place_order"
    /\ \E i \in 1..Len(messages) :
        messages[i] = ToolMessage("Big Mac: $5\nWhopper: $6\nFries: $2")
    /\ menu = MENU_DATA

\* C7: when the engine call raises, run_agent ends with the exception: the
\* engine was invoked once, nothing was extracted and no tuple is returned.
C7_EngineFailurePropagates ==
    engine.status = "raised" =>
        /\ engine.invocations = 1
        /\ outcome = Raised
        /\ reply = <<>>
        /\ result = NoResult

\* C7 witness: the engine raised after it had appended a turn.
C7_Witness ==
    /\ engine.status = "raised"
    /\ Len(messages) >= 2
    /\ outcome.kind = "raised"

\* C8: when GEMINI_API_KEY is absent or empty, the load ends in the
\* ValueError with its message, with no module-level object constructed
\* and no provider call made.
C8_CredentialCheckFirst ==
    (phase # "unloaded" /\ (~environ.has_key \/ environ.GEMINI_API_KEY = "")) =>
        /\ phase = "fatal"
        /\ error = "GEMINI_API_KEY not found in environment variables. Please set it in your .env file."
        /\ constructed = <<>>
        /\ provider_calls = {}
        /\ menu = <<>>
        /\ n_calls = 0

\* C8 witness: the load failed on a key that is set but empty.
C8_Witness ==
    /\ phase = "fatal"
    /\ environ.has_key
    /\ environ.GEMINI_API_KEY = ""
    /\ constructed = <<>>

\* C9: the reply text is the one run_agent gives for the same result
\* whatever the callback exposes; when the callback exposes no trace id the
\* tuple still carries the text, with None as its trace id.
C9_ReplyIndependentOfTrace ==
    HasReturned =>
        /\ \A effect \in CallbackEffects :
            Extract(result, HandlerAfter(NewHandler(n_calls), effect, n_calls)).value[1]
                = reply[1]
        /\ (~langfuse_handler.has_attr \/ langfuse_handler.last_trace_id = None)
                => (Len(reply) = 2 /\ reply[2] = None)
        /\ (langfuse_handler.has_attr /\ langfuse_handler.last_trace_id # None)
                => reply[2] = langfuse_handler.last_trace_id

\* C9 witness: the handler has no last_trace_id attribute and the reply is
\* an assistant turn's text with no trace id.
C9_Witness ==
    /\ HasReturned
    /\ ~langfuse_handler.has_attr
    /\ outcome.line = 106
    /\ reply[1] = "Here you go!"
    /\ reply[2] = None

\* C10: each run_agent call starts from a conversation of exactly one user
\* turn with the caller's text and from a new callback object with nothing
\* recorded, and the trace id a call returns is None or the trace of that
\* very call.
C10_NoStateAcrossCalls ==
    [][/\ (n_calls' # n_calls) =>
            /\ messages' = <<[type |-> "HumanMessage", has_content |-> TRUE,
                              content |-> user_input']>>
            /\ langfuse_handler'.id # langfuse_handler.id
            /\ langfuse_handler'.has_attr
            /\ langfuse_handler'.last_trace_id = None
       /\ (outcome'.kind = "return" /\ outcome.kind # "return") =>
            /\ reply'[2] \in {None, TraceIds[n_calls']}
            /\ reply'[2] = (IF langfuse_handler'.has_attr
                            THEN langfuse_handler'.last_trace_id ELSE None)
            /\ langfuse_handler'.id = n_calls'
            /\ result'.has_messages /\ result'.messages # <<>>
                  => result'.messages[1].content = user_input'
      ]_vars

\* C10 witness: the second call returned its own trace id.
C10_Witness ==
    /\ n_calls = 2
    /\ HasReturned
    /\ Len(messages) >= 2
    /\ messages[1] = HumanMessage(user_input)
    /\ reply[2] = "trace-2"

\* text contains sub as a substring
Contains(text, sub) ==
    \E i \in 1..(Len(text) - Len(sub) + 1) : SubSeq(text, i, i + Len(sub) - 1) = sub

\* C11: when the closest record the retriever returns for the query is
\* "Big Mac: $5" the output of lookup_price contains "$5", and when it is
\* "Fries: $2" the output contains "$2".
C11_ClosestRecordPriceInOutput ==
    (last_tool.name = "lookup_price" /\ last_tool.docs # <<>>) =>
        /\ last_tool.docs[1] = "Big Mac: $5" => Contains(last_tool.out, "$5")
        /\ last_tool.docs[1] = "Fries: $2" => Contains(last_tool.out, "$2")

\* C11 witness: a lookup over the three-record menu returned all K records
\* with the Big Mac record closest, and its output shows the price.
C11_Witness ==
    /\ last_tool.name = "lookup_price"
    /\ Len(last_tool.docs) = K
    /\ last_tool.docs[1] = "Big Mac: $5"
    /\ Contains(last_tool.out, "$5")
    /\ ~Contains(last_tool.out, "$7")

=============================================================================
